---- MODULE Spec2Model ----
(***************************************************************************)
(* Level aggregator of rbasa/fx_arbitrage: the OrderBook class of          *)
(* orderbook.py and the feed functions of run_data.py.                     *)
(*                                                                         *)
(* Floats are modelled by integers plus the value NaN, for which every     *)
(* comparison is false.  An OrderedDict is the sequence of its             *)
(* <<key, value>> items in iteration order.  Python's None is the empty   *)
(* tuple None; an Optional[float] or Optional[datetime] that is not None   *)
(* is the one-element tuple <<v>>, and a returned (price, quantity) is the *)
(* pair <<price, quantity>>.                                               *)
(***************************************************************************)
EXTENDS Integers, Sequences, FiniteSets, TLC

\* Number of levels in one batch handed to update_bids / update_offers.
BatchLen == 2

\* Number of levels per side in one record handed to update_order_book (the
\* source reads five: BI_price_1..5 and so on).
FeedDepth == 1

\* float('nan'): a value that is neither equal to, greater than nor less than
\* any float.
NaN == -99

None == <<>>

\* The floats a caller passes as prices and as quantities.
Prices == {NaN, -1, 0, 1, 2}
Quantities == {-1, 0, 1, 2}

Batches(S) == [1..BatchLen -> S]

\* A field of a record (row[name]): no such key, a non-numeric text, or a
\* number.  An empty CSV cell is the number NaN.
Absent == [kind |-> "absent", val |-> 0]
Text == [kind |-> "str", val |-> 0]
Num(v) == [kind |-> "num", val |-> v]

PriceFields == {Absent, Text, Num(NaN), Num(0), Num(1)}
QuantityFields == {Absent, Text, Num(0), Num(1)}

\* row['time'], a pandas Timestamp, in nanoseconds.
Times == {1000, 2001}

Rows ==
    [bid_prices : [1..FeedDepth -> PriceFields],
     bid_quantities : [1..FeedDepth -> QuantityFields],
     offer_prices : [1..FeedDepth -> PriceFields],
     offer_quantities : [1..FeedDepth -> QuantityFields],
     time : Times]

NoRow == [time |-> 0]

\* The read-only methods of OrderBook.
Queries == {"get_best_bid", "get_best_offer", "get_spread"}

NotAsked == [q \in Queries |-> <<>>]

VARIABLES
    pc,          \* "idle": the caller is between calls; "called": a method has
                 \* been entered; "returned": it has run to its end
    op,          \* the method of the current (pc = "called") or last call
    prices,      \* its prices argument
    quantities,  \* its quantities argument
    bids,        \* OrderBook.bids
    offers,      \* OrderBook.offers
    prevBids,    \* OrderBook.bids when the last call was entered
    prevOffers,  \* OrderBook.offers when the last call was entered
    last_update_time,  \* OrderBook.last_update_time: None or <<datetime>>
    prevTime,    \* OrderBook.last_update_time when the last call was entered
    row,         \* the row argument of update_order_book
    raised,      \* the exception the last call ended with, "none" if it returned
    result,      \* the value the last call returned
    asked,       \* per query, <<value>> it returned since the last update call
                 \* was entered, <<>> if it has not been called since
    prevAsked,   \* asked when the last call was entered
    runpc,       \* where run is: "start", "files" (at the head of its loop
                 \* over csv_files), "rows" (in process_file's loop over
                 \* df), "done" (returned), "raised" (FileNotFoundError)
    csv_files,   \* the number of files the glob found
    fileIdx,     \* the position in csv_files of the file last taken
    order_books, \* the registry: security -> OrderBook
    df,          \* the DataFrame of the file being processed
    rowIdx,      \* the position in df of the row process_file is at
    outcome,     \* how the last step of run ended: "none", "read_error",
                 \* "applied", "row_error", "file_end"
    processed,   \* positions of the files process_file was called on
    failed,      \* positions of the files whose process_file raised
    fileBooks,   \* order_books when the last file was opened
    prevBooks    \* order_books when the last row was taken

bookVars == <<bids, offers, last_update_time>>

feedVars == <<last_update_time, prevTime, row, raised>>

queryVars == <<result, asked, prevAsked>>

callerVars ==
    <<pc, op, prices, quantities, bids, offers, prevBids, prevOffers,
      last_update_time, prevTime, row, raised, result, asked, prevAsked>>

runVars ==
    <<runpc, csv_files, fileIdx, order_books, df, rowIdx, outcome, processed,
      failed, fileBooks, prevBooks>>

vars == <<callerVars, runVars>>

----------------------------------------------------------------------------
\* Float comparisons

FloatEq(a, b) == a # NaN /\ b # NaN /\ a = b

FloatGt(a, b) == a # NaN /\ b # NaN /\ a > b

Min(S) == CHOOSE x \in S : \A y \in S : x <= y

----------------------------------------------------------------------------
\* OrderedDict

Keys(d) == [i \in 1..Len(d) |-> d[i][1]]

HasKey(d, k) == \E i \in 1..Len(d) : d[i][1] = k

DictGet(d, k) == d[CHOOSE i \in 1..Len(d) : d[i][1] = k][2]

\* Variant: the item is added without looking for the key.
DictSetAlwaysAppends(d, k, v) == Append(d, <<k, v>>)

\* d[k] = v: an existing key keeps its position, a new key goes last.
DictSet(d, k, v) ==
    IF HasKey(d, k)
    THEN [i \in 1..Len(d) |-> IF d[i][1] = k THEN <<k, v>> ELSE d[i]]
    ELSE Append(d, <<k, v>>)

\* Variant: the first item is removed, whatever its key.
DictDelFirst(d, k) == Tail(d)

\* del d[k]
DictDel(d, k) == SelectSeq(d, LAMBDA item : item[1] # k)

\* Python's order on (price, quantity) tuples.
ItemLt(a, b) == a[1] < b[1] \/ (a[1] = b[1] /\ a[2] < b[2])

\* x goes before e in the sorted result.
GoesBefore(x, e, reverse) == IF reverse THEN ItemLt(e, x) ELSE ItemLt(x, e)

InsertItem(s, x, reverse) ==
    LET later == {i \in 1..Len(s) : GoesBefore(x, s[i], reverse)}
        pos == IF later = {} THEN Len(s) + 1 ELSE Min(later)
    IN  SubSeq(s, 1, pos - 1) \o <<x>> \o SubSeq(s, pos, Len(s))

RECURSIVE SortPrefix(_, _, _)
SortPrefix(items, n, reverse) ==
    IF n = 0 THEN <<>>
    ELSE InsertItem(SortPrefix(items, n - 1, reverse), items[n], reverse)

\* Variant: the items are left in insertion order.
SortedItemsSkipped(d, reverse) == d

\* OrderedDict(sorted(d.items(), reverse=reverse)): a stable sort.
SortedItems(d, reverse) == SortPrefix(d, Len(d), reverse)

----------------------------------------------------------------------------
\* OrderBook.update_bids / update_offers

\* all(p == 0.0 for p in prices)
AllZero(ps) == \A i \in 1..Len(ps) : FloatEq(ps[i], 0)

\* Variant: price >= 0.0 in place of price > 0.0.
ReconcileLevelZeroPrice(d, price, qty) ==
    IF (FloatGt(price, 0) \/ FloatEq(price, 0)) /\ FloatGt(qty, 0)
    THEN DictSet(d, price, qty)
    ELSE IF (FloatGt(price, 0) \/ FloatEq(price, 0)) /\ FloatEq(qty, 0)
         THEN IF HasKey(d, price) THEN DictDel(d, price) ELSE d
         ELSE d

\* Variant: qty >= 0.0 in place of qty > 0.0, so a zero quantity is stored.
ReconcileLevelZeroQty(d, price, qty) ==
    IF FloatGt(price, 0) /\ (FloatGt(qty, 0) \/ FloatEq(qty, 0))
    THEN DictSet(d, price, qty)
    ELSE d

\* Variant: qty <= 0.0 in place of qty == 0.0 in the deleting branch.
ReconcileLevelNonPositiveDeletes(d, price, qty) ==
    IF FloatGt(price, 0) /\ FloatGt(qty, 0) THEN DictSet(d, price, qty)
    ELSE IF FloatGt(price, 0) /\ (FloatEq(qty, 0) \/ FloatGt(0, qty))
         THEN IF HasKey(d, price) THEN DictDel(d, price) ELSE d
         ELSE d

\* One turn of the loop over zip(prices, quantities).
ReconcileLevel(d, price, qty) ==
    IF FloatGt(price, 0) /\ FloatGt(qty, 0) THEN DictSet(d, price, qty)
    ELSE IF FloatGt(price, 0) /\ FloatEq(qty, 0)
         THEN IF HasKey(d, price) THEN DictDel(d, price) ELSE d
         ELSE d

\* Variant: the indices are taken from the last to the first.
RECURSIVE ReconcileLevelsReversed(_, _, _, _)
ReconcileLevelsReversed(d, ps, qs, i) ==
    IF i > Len(ps) \/ i > Len(qs) THEN d
    ELSE ReconcileLevel(ReconcileLevelsReversed(d, ps, qs, i + 1), ps[i], qs[i])

\* The loop, from index i to the end of the shorter list.
RECURSIVE ReconcileLevels(_, _, _, _)
ReconcileLevels(d, ps, qs, i) ==
    IF i > Len(ps) \/ i > Len(qs) THEN d
    ELSE ReconcileLevels(ReconcileLevel(d, ps[i], qs[i]), ps, qs, i + 1)

\* Variant: an all-zero snapshot is taken to mean an empty side.
update_bids_all_zero_clears(d, ps, qs) ==
    IF AllZero(ps) THEN <<>>
    ELSE SortedItems(ReconcileLevels(d, ps, qs, 1), TRUE)

\* Variant: the snapshot replaces the side instead of being merged into it.
update_bids_replaces(d, ps, qs) ==
    IF AllZero(ps) THEN d
    ELSE SortedItems(ReconcileLevels(<<>>, ps, qs, 1), TRUE)

update_bids(d, ps, qs) ==
    IF AllZero(ps) THEN d
    ELSE SortedItems(ReconcileLevels(d, ps, qs, 1), TRUE)

update_offers(d, ps, qs) ==
    IF AllZero(ps) THEN d
    ELSE SortedItems(ReconcileLevels(d, ps, qs, 1), FALSE)

----------------------------------------------------------------------------
\* Queries

\* Variant: the last item instead of the first.
get_best_bid_last(b) ==
    IF Len(b) = 0 THEN None
    ELSE LET price == Keys(b)[Len(b)] IN <<price, DictGet(b, price)>>

get_best_bid(b) ==
    IF Len(b) = 0 THEN None
    ELSE LET price == Keys(b)[1] IN <<price, DictGet(b, price)>>

get_best_offer(o) ==
    IF Len(o) = 0 THEN None
    ELSE LET price == Keys(o)[1] IN <<price, DictGet(o, price)>>

\* Variant: the operands of the subtraction swapped.
get_spread_swapped(b, o) ==
    LET best_bid == get_best_bid(b)
        best_offer == get_best_offer(o)
    IN  IF best_bid = None \/ best_offer = None THEN None
        ELSE <<best_bid[1] - best_offer[1]>>

\* None, or <<spread>>.
get_spread(b, o) ==
    LET best_bid == get_best_bid(b)
        best_offer == get_best_offer(o)
    IN  IF best_bid = None \/ best_offer = None THEN None
        ELSE <<best_offer[1] - best_bid[1]>>

----------------------------------------------------------------------------
\* A single OrderBook driven by a caller

Init ==
    /\ pc = "idle"
    /\ op = "none"
    /\ prices = <<>>
    /\ quantities = <<>>
    /\ bids = <<>>
    /\ offers = <<>>
    /\ prevBids = <<>>
    /\ prevOffers = <<>>
    /\ last_update_time = None
    /\ prevTime = None
    /\ row = NoRow
    /\ raised = "none"
    /\ result = None
    /\ asked = NotAsked
    /\ prevAsked = NotAsked
    /\ runpc = "start"
    /\ csv_files = 0
    /\ fileIdx = 0
    /\ order_books = <<>>
    /\ df = <<>>
    /\ rowIdx = 0
    /\ outcome = "none"
    /\ processed = {}
    /\ failed = {}
    /\ fileBooks = <<>>
    /\ prevBooks = <<>>

Enter(method, ps, qs) ==
    /\ pc' = "called"
    /\ op' = method
    /\ prices' = ps
    /\ quantities' = qs
    /\ UNCHANGED <<bids, offers, prevBids, prevOffers, feedVars, queryVars>>
    /\ UNCHANGED runVars

CallUpdateBids ==
    /\ pc = "idle"
    /\ \E ps \in Batches(Prices), qs \in Batches(Quantities) :
           Enter("update_bids", ps, qs)

CallUpdateOffers ==
    /\ pc = "idle"
    /\ \E ps \in Batches(Prices), qs \in Batches(Quantities) :
           Enter("update_offers", ps, qs)

UpdateBids ==
    /\ pc = "called"
    /\ op = "update_bids"
    /\ bids' = update_bids(bids, prices, quantities)
    /\ pc' = "returned"
    /\ UNCHANGED <<op, prices, quantities, offers, prevBids, prevOffers, feedVars, queryVars>>
    /\ UNCHANGED runVars

\* Variant: the re-sorted items are assigned to self.bids.
UpdateOffersAssignsBids ==
    /\ pc = "called"
    /\ op = "update_offers"
    /\ IF AllZero(prices)
       THEN UNCHANGED <<bids, offers>>
       ELSE LET d == ReconcileLevels(offers, prices, quantities, 1)
            IN  offers' = d /\ bids' = SortedItems(d, FALSE)
    /\ pc' = "returned"
    /\ UNCHANGED <<op, prices, quantities, prevBids, prevOffers, feedVars, queryVars>>
    /\ UNCHANGED runVars

UpdateOffers ==
    /\ pc = "called"
    /\ op = "update_offers"
    /\ offers' = update_offers(offers, prices, quantities)
    /\ pc' = "returned"
    /\ UNCHANGED <<op, prices, quantities, bids, prevBids, prevOffers, feedVars, queryVars>>
    /\ UNCHANGED runVars

\* The caller drops the arguments and goes on to its next call.
Return ==
    /\ pc = "returned"
    /\ pc' = "idle"
    /\ op' = "none"
    /\ prices' = <<>>
    /\ quantities' = <<>>
    /\ row' = NoRow
    /\ raised' = "none"
    /\ prevBids' = bids
    /\ prevOffers' = offers
    /\ prevTime' = last_update_time
    /\ result' = None
    /\ prevAsked' = asked
    /\ UNCHANGED <<bookVars, asked>>
    /\ UNCHANGED runVars

Next ==
    \/ CallUpdateBids
    \/ CallUpdateOffers
    \/ UpdateBids
    \/ UpdateOffers
    \/ Return

Spec == Init /\ [][Next]_vars

----------------------------------------------------------------------------
\* A single OrderBook fed more distinct prices than one record carries

\* Levels per side in one record: BI_price_1 .. BI_price_5.
TopLevels == 5

DeepPrices == 0..(TopLevels + 1)

DeepQuantities == {0, 1}

\* Batches of two levels.
DeepBatches(S) == {<<a, b>> : a \in S, b \in S}

CallUpdateBidsDeep ==
    /\ pc = "idle"
    /\ \E ps \in DeepBatches(DeepPrices), qs \in DeepBatches(DeepQuantities) :
           Enter("update_bids", ps, qs)

CallUpdateOffersDeep ==
    /\ pc = "idle"
    /\ \E ps \in DeepBatches(DeepPrices), qs \in DeepBatches(DeepQuantities) :
           Enter("update_offers", ps, qs)

NextDeep ==
    \/ CallUpdateBidsDeep
    \/ CallUpdateOffersDeep
    \/ UpdateBids
    \/ UpdateOffers
    \/ Return

SpecDeep == Init /\ [][NextDeep]_vars

----------------------------------------------------------------------------
\* run_data.update_order_book on one OrderBook

\* The fields in the order update_order_book reads them.
FieldsInOrder(r) ==
    r.bid_prices \o r.bid_quantities \o r.offer_prices \o r.offer_quantities

\* float(row[name]) raises: KeyError from row[name] when there is no such
\* key, ValueError from float when the text is no number.
Raises(f) == f.kind # "num"

Exception(f) == IF f.kind = "absent" THEN "KeyError" ELSE "ValueError"

\* float(row[name]) for a field that converts.
Float(f) == f.val

Floats(fs) == [i \in 1..Len(fs) |-> Float(fs[i])]

\* The first field, in reading order, whose conversion raises; 0 if none.
FirstRaising(fs) ==
    LET bad == {i \in 1..Len(fs) : Raises(fs[i])}
    IN  IF bad = {} THEN 0 ELSE Min(bad)

\* Timestamp.to_pydatetime(): a datetime holds microseconds, the nanoseconds
\* below are dropped.
to_pydatetime(t) == t - (t % 1000)

CallUpdateOrderBook ==
    /\ pc = "idle"
    /\ \E r \in Rows :
           /\ pc' = "called"
           /\ op' = "update_order_book"
           /\ row' = r
           /\ asked' = NotAsked
           /\ prevAsked' = NotAsked
           /\ UNCHANGED <<prices, quantities, bids, offers, prevBids,
                          prevOffers, last_update_time, prevTime, raised,
                          result>>
    /\ UNCHANGED runVars

\* Variant: the offer fields are read after the bid side has been applied.
UpdateOrderBookBidsFirst ==
    /\ pc = "called"
    /\ op = "update_order_book"
    /\ pc' = "returned"
    /\ LET bidBad == FirstRaising(row.bid_prices \o row.bid_quantities)
           offerBad == FirstRaising(row.offer_prices \o row.offer_quantities)
       IN  IF bidBad # 0
           THEN /\ raised' = Exception((row.bid_prices \o row.bid_quantities)[bidBad])
                /\ UNCHANGED bookVars
           ELSE /\ bids' = update_bids(bids, Floats(row.bid_prices),
                                       Floats(row.bid_quantities))
                /\ IF offerBad # 0
                   THEN /\ raised' = Exception((row.offer_prices
                                                  \o row.offer_quantities)[offerBad])
                        /\ UNCHANGED <<offers, last_update_time>>
                   ELSE /\ offers' = update_offers(offers, Floats(row.offer_prices),
                                                   Floats(row.offer_quantities))
                        /\ last_update_time' = <<to_pydatetime(row.time)>>
                        /\ raised' = "none"
    /\ UNCHANGED <<op, prices, quantities, prevBids, prevOffers, prevTime, row,
                   queryVars>>
    /\ UNCHANGED runVars

\* Variant: last_update_time is set only when a side has changed.
UpdateOrderBookTimeOnChange ==
    /\ pc = "called"
    /\ op = "update_order_book"
    /\ pc' = "returned"
    /\ LET fields == FieldsInOrder(row)
           bad == FirstRaising(fields)
           newBids == update_bids(bids, Floats(row.bid_prices),
                                  Floats(row.bid_quantities))
           newOffers == update_offers(offers, Floats(row.offer_prices),
                                      Floats(row.offer_quantities))
       IN  IF bad # 0
           THEN /\ raised' = Exception(fields[bad])
                /\ UNCHANGED bookVars
           ELSE /\ bids' = newBids
                /\ offers' = newOffers
                /\ last_update_time' =
                      IF newBids = bids /\ newOffers = offers
                      THEN last_update_time
                      ELSE <<to_pydatetime(row.time)>>
                /\ raised' = "none"
    /\ UNCHANGED <<op, prices, quantities, prevBids, prevOffers, prevTime, row,
                   queryVars>>
    /\ UNCHANGED runVars

UpdateOrderBook ==
    /\ pc = "called"
    /\ op = "update_order_book"
    /\ pc' = "returned"
    /\ LET fields == FieldsInOrder(row)
           bad == FirstRaising(fields)
       IN  IF bad # 0
           THEN /\ raised' = Exception(fields[bad])
                /\ UNCHANGED bookVars
           ELSE /\ bids' = update_bids(bids, Floats(row.bid_prices),
                                       Floats(row.bid_quantities))
                /\ offers' = update_offers(offers, Floats(row.offer_prices),
                                           Floats(row.offer_quantities))
                /\ last_update_time' = <<to_pydatetime(row.time)>>
                /\ raised' = "none"
    /\ UNCHANGED <<op, prices, quantities, prevBids, prevOffers, prevTime, row,
                   queryVars>>
    /\ UNCHANGED runVars

\* A reader (the summary and statistics loops of run_data.py) calls one of
\* the queries.
CallQuery ==
    /\ pc = "idle"
    /\ \E q \in Queries :
           /\ pc' = "called"
           /\ op' = q
           /\ UNCHANGED <<prices, quantities, bids, offers, prevBids,
                          prevOffers, feedVars, queryVars>>
    /\ UNCHANGED runVars

\* A query returns value v; the book is not assigned to.
Answer(v) ==
    /\ pc' = "returned"
    /\ result' = v
    /\ asked' = [asked EXCEPT ![op] = <<v>>]
    /\ prevAsked' = asked
    /\ UNCHANGED <<op, prices, quantities, prevBids, prevOffers, feedVars>>
    /\ UNCHANGED runVars

\* Variant: the best bid is taken out of the mapping (popitem).
GetBestBidPops ==
    /\ pc = "called"
    /\ op = "get_best_bid"
    /\ Answer(get_best_bid(bids))
    /\ bids' = IF Len(bids) = 0 THEN bids ELSE Tail(bids)
    /\ UNCHANGED offers

GetBestBid ==
    /\ pc = "called"
    /\ op = "get_best_bid"
    /\ Answer(get_best_bid(bids))
    /\ UNCHANGED <<bids, offers>>

GetBestOffer ==
    /\ pc = "called"
    /\ op = "get_best_offer"
    /\ Answer(get_best_offer(offers))
    /\ UNCHANGED <<bids, offers>>

GetSpread ==
    /\ pc = "called"
    /\ op = "get_spread"
    /\ Answer(get_spread(bids, offers))
    /\ UNCHANGED <<bids, offers>>

NextFeed ==
    \/ CallUpdateOrderBook
    \/ UpdateOrderBook
    \/ CallQuery
    \/ GetBestBid
    \/ GetBestOffer
    \/ GetSpread
    \/ Return

SpecFeed == Init /\ [][NextFeed]_vars

----------------------------------------------------------------------------
\* run_data.run: the registry of OrderBooks fed from the files of a directory

\* At most MaxFiles files in the directory, at most RowsPerFile rows in a file.
MaxFiles == 2

RowsPerFile == 3

Securities == {"EURUSD", "USDJPY"}

\* The same field at every level of a side.
Uniform(f) == [i \in 1..FeedDepth |-> f]

Payload(bp, bq, fp, fq) ==
    [bid_prices |-> Uniform(bp), bid_quantities |-> Uniform(bq),
     offer_prices |-> Uniform(fp), offer_quantities |-> Uniform(fq)]

\* What a row carries besides security and time: a bid level, an offer
\* level, or an offer quantity that is no number.
Payloads ==
    {Payload(Num(1), Num(1), Num(0), Num(0)),
     Payload(Num(0), Num(0), Num(1), Num(1)),
     Payload(Num(1), Num(1), Num(1), Text)}

Records ==
    {[security |-> s, time |-> t, bid_prices |-> p.bid_prices,
      bid_quantities |-> p.bid_quantities, offer_prices |-> p.offer_prices,
      offer_quantities |-> p.offer_quantities] :
        s \in Securities, t \in Times, p \in Payloads}

\* The rows of a file as pd.read_csv returns them, in file order.
CsvFiles == UNION {[1..n -> Records] : n \in 0..RowsPerFile}

\* Files of at most ShortRows rows.
ShortRows == 2

ShortFiles == UNION {[1..n -> Records] : n \in 0..ShortRows}

\* df.sort_values('time'): the rows in non-decreasing time. The default
\* kind is quicksort, which is not stable: rows of equal time come in any
\* order.
sort_values(raw) ==
    {[i \in 1..Len(raw) |-> raw[f[i]]] :
        f \in {g \in Permutations(1..Len(raw)) :
                 \A i, j \in 1..Len(raw) :
                     i < j => raw[g[i]].time <= raw[g[j]].time}}

EmptyRegistry == <<>>

\* OrderBook(security)
OrderBook(security) ==
    [security |-> security, bids |-> <<>>, offers |-> <<>>,
     last_update_time |-> None]

\* Variant: the registry entry is assigned a new OrderBook on every row.
CreateAlways(books, security) ==
    [s \in DOMAIN books \cup {security} |->
        IF s = security THEN OrderBook(security) ELSE books[s]]

\* if security not in order_books: order_books[security] = OrderBook(security)
CreateOnFirstSight(books, security) ==
    IF security \in DOMAIN books THEN books
    ELSE [s \in DOMAIN books \cup {security} |->
            IF s = security THEN OrderBook(security) ELSE books[s]]

\* update_order_book(order_book, r) raises.
RowRaises(r) == FirstRaising(FieldsInOrder(r)) # 0

\* update_order_book(order_book, r) when it does not raise.
update_order_book(order_book, r) ==
    [order_book EXCEPT
        !.bids = update_bids(@, Floats(r.bid_prices), Floats(r.bid_quantities)),
        !.offers = update_offers(@, Floats(r.offer_prices),
                                 Floats(r.offer_quantities)),
        !.last_update_time = <<to_pydatetime(r.time)>>]

\* if not data_path.exists(): raise FileNotFoundError
RunNoDirectory ==
    /\ runpc = "start"
    /\ runpc' = "raised"
    /\ UNCHANGED <<csv_files, fileIdx, order_books, df, rowIdx, outcome,
                   processed, failed, fileBooks, prevBooks>>
    /\ UNCHANGED callerVars

\* run up to its loop: an empty registry and the sorted list of the files
\* found; with no file it returns at once.
Run ==
    /\ runpc = "start"
    /\ \E n \in 0..MaxFiles :
           /\ csv_files' = n
           /\ runpc' = IF n = 0 THEN "done" ELSE "files"
    /\ order_books' = EmptyRegistry
    /\ UNCHANGED <<fileIdx, df, rowIdx, outcome, processed, failed, fileBooks,
                   prevBooks>>
    /\ UNCHANGED callerVars

\* Variant: an exception of process_file leaves run.
Propagates == "raised"

\* except Exception as e: print(...); the loop over csv_files goes on.
AfterException == "files"

\* process_file on the next file when read_market_data raises (no such
\* file, no 'time' column, a time that does not parse).
ReadFails ==
    /\ runpc = "files"
    /\ fileIdx < csv_files
    /\ fileIdx' = fileIdx + 1
    /\ processed' = processed \cup {fileIdx + 1}
    /\ failed' = failed \cup {fileIdx + 1}
    /\ fileBooks' = order_books
    /\ df' = <<>>
    /\ rowIdx' = 0
    /\ outcome' = "read_error"
    /\ runpc' = AfterException
    /\ UNCHANGED <<csv_files, order_books, prevBooks>>
    /\ UNCHANGED callerVars

\* process_file on the next file, one of files, up to its loop: df is the
\* file's rows sorted by time.
ReadOneOf(files) ==
    /\ runpc = "files"
    /\ fileIdx < csv_files
    /\ \E raw \in files : \E d \in sort_values(raw) : df' = d
    /\ fileIdx' = fileIdx + 1
    /\ processed' = processed \cup {fileIdx + 1}
    /\ fileBooks' = order_books
    /\ rowIdx' = 1
    /\ outcome' = "none"
    /\ runpc' = "rows"
    /\ UNCHANGED <<csv_files, order_books, failed, prevBooks>>
    /\ UNCHANGED callerVars

ReadFile == ReadOneOf(CsvFiles)

ReadShortFile == ReadOneOf(ShortFiles)

\* Variant: what the failed file has done is undone.
ProcessRowRollsBack ==
    /\ runpc = "rows"
    /\ rowIdx <= Len(df)
    /\ prevBooks' = order_books
    /\ LET r == df[rowIdx]
           created == CreateOnFirstSight(order_books, r.security)
       IN  IF RowRaises(r)
           THEN /\ order_books' = fileBooks
                /\ outcome' = "row_error"
                /\ failed' = failed \cup {fileIdx}
                /\ runpc' = AfterException
                /\ UNCHANGED rowIdx
           ELSE /\ order_books' =
                      [created EXCEPT
                          ![r.security] = update_order_book(@, r)]
                /\ outcome' = "applied"
                /\ rowIdx' = rowIdx + 1
                /\ UNCHANGED <<failed, runpc>>
    /\ UNCHANGED <<csv_files, fileIdx, df, processed, fileBooks>>
    /\ UNCHANGED callerVars

\* One turn of process_file's loop: the row's OrderBook is created if its
\* security is new, then update_order_book; an exception leaves
\* process_file and is caught in run.
ProcessRow ==
    /\ runpc = "rows"
    /\ rowIdx <= Len(df)
    /\ prevBooks' = order_books
    /\ LET r == df[rowIdx]
           created == CreateOnFirstSight(order_books, r.security)
       IN  IF RowRaises(r)
           THEN /\ order_books' = created
                /\ outcome' = "row_error"
                /\ failed' = failed \cup {fileIdx}
                /\ runpc' = AfterException
                /\ UNCHANGED rowIdx
           ELSE /\ order_books' =
                      [created EXCEPT
                          ![r.security] = update_order_book(@, r)]
                /\ outcome' = "applied"
                /\ rowIdx' = rowIdx + 1
                /\ UNCHANGED <<failed, runpc>>
    /\ UNCHANGED <<csv_files, fileIdx, df, processed, fileBooks>>
    /\ UNCHANGED callerVars

\* process_file returns after the last row.
EndFile ==
    /\ runpc = "rows"
    /\ rowIdx > Len(df)
    /\ runpc' = "files"
    /\ outcome' = "file_end"
    /\ UNCHANGED <<csv_files, fileIdx, order_books, df, rowIdx, processed,
                   failed, fileBooks, prevBooks>>
    /\ UNCHANGED callerVars

\* After the last file run prints the summary and returns order_books.
Finish ==
    /\ runpc = "files"
    /\ fileIdx = csv_files
    /\ runpc' = "done"
    /\ UNCHANGED <<csv_files, fileIdx, order_books, df, rowIdx, outcome,
                   processed, failed, fileBooks, prevBooks>>
    /\ UNCHANGED callerVars

NextRun ==
    \/ RunNoDirectory
    \/ Run
    \/ ReadFails
    \/ ReadFile
    \/ ProcessRow
    \/ EndFile
    \/ Finish

SpecRun == Init /\ [][NextRun]_vars

\* run over short files.
NextShort ==
    \/ RunNoDirectory
    \/ Run
    \/ ReadFails
    \/ ReadShortFile
    \/ ProcessRow
    \/ EndFile
    \/ Finish

\* run is one thread that keeps executing: it takes its next step whenever
\* it has one.
SpecShortFair == Init /\ [][NextShort]_vars /\ WF_vars(NextShort)

----------------------------------------------------------------------------
\* Vocabulary of the properties

KeySet(d) == {d[i][1] : i \in 1..Len(d)}

ItemSet(d) == {d[i] : i \in 1..Len(d)}

LevelsAt(d, k) == Cardinality({i \in 1..Len(d) : d[i][1] = k})

PosPrices == {p \in Prices : p # NaN /\ p > 0}

PosQuantities == {q \in Quantities : q # NaN /\ q > 0}

\* The side the current or last call is about, and that side when the call
\* was entered.
Side == IF op = "update_bids" THEN bids ELSE offers

PrevSide == IF op = "update_bids" THEN prevBids ELSE prevOffers

\* The method of the current or last call, applied to a side.
UpdateSide(d, ps, qs) ==
    IF op = "update_bids" THEN update_bids(d, ps, qs)
    ELSE update_offers(d, ps, qs)

\* Every price of the batch is 0.
EveryPriceZero == \A i \in 1..Len(prices) : prices[i] = 0

\* (P, Q) is the only entry of the batch with a non-zero price.
OnlyEntry(P, Q) ==
    \E i \in 1..Len(prices) :
        /\ prices[i] = P
        /\ quantities[i] = Q
        /\ \A j \in (1..Len(prices)) \ {i} : prices[j] = 0

\* Sequence s without its i-th element.
Without(s, i) == SubSeq(s, 1, i - 1) \o SubSeq(s, i + 1, Len(s))

----------------------------------------------------------------------------
\* C1: after any sequence of update_bids and update_offers calls the keys of
\* bids are strictly descending, the keys of offers strictly ascending, and
\* no price appears twice on a side.
C1_Ordering ==
    /\ \A i \in 1..(Len(bids) - 1) : bids[i][1] > bids[i + 1][1]
    /\ \A i \in 1..(Len(offers) - 1) : offers[i][1] < offers[i + 1][1]
    /\ \A k \in KeySet(bids) : LevelsAt(bids, k) = 1
    /\ \A k \in KeySet(offers) : LevelsAt(offers, k) = 1

C1_Witness ==
    /\ pc = "returned"
    /\ Len(bids) >= 2
    /\ Len(offers) >= 2

\* C2: get_best_bid is the level with the highest bid price, get_best_offer
\* the level with the lowest offer price, each None exactly when its side is
\* empty; once the best bid (offer) is deleted, the best of the remaining
\* levels is returned.
C2_BestOfBook ==
    /\ (get_best_bid(bids) = None) <=> (Len(bids) = 0)
    /\ (get_best_offer(offers) = None) <=> (Len(offers) = 0)
    /\ Len(bids) > 0 =>
          /\ get_best_bid(bids) \in ItemSet(bids)
          /\ \A k \in KeySet(bids) : k <= get_best_bid(bids)[1]
    /\ Len(offers) > 0 =>
          /\ get_best_offer(offers) \in ItemSet(offers)
          /\ \A k \in KeySet(offers) : k >= get_best_offer(offers)[1]
    /\ (pc = "returned" /\ Len(PrevSide) > 0 /\ OnlyEntry(PrevSide[1][1], 0)) =>
          LET rest == ItemSet(PrevSide) \ {PrevSide[1]}
              best == IF op = "update_bids" THEN get_best_bid(bids)
                      ELSE get_best_offer(offers)
          IN  IF rest = {} THEN best = None
              ELSE /\ best \in rest
                   /\ \A r \in rest :
                         IF op = "update_bids" THEN r[1] <= best[1]
                         ELSE r[1] >= best[1]

C2_Witness ==
    /\ pc = "returned"
    /\ op = "update_bids"
    /\ Len(prevBids) = 2
    /\ OnlyEntry(prevBids[1][1], 0)
    /\ get_best_bid(bids) = prevBids[2]
    /\ Len(offers) = 2

\* C3: a batch whose only non-zero-price entry is (P > 0, 0) removes exactly
\* the key P when P is a key of the side, every other level keeping its
\* price, quantity and place; when P is no key the side is unchanged.
C3_Deletion ==
    \A P \in PosPrices :
        (pc = "returned" /\ OnlyEntry(P, 0)) =>
            IF P \in KeySet(PrevSide)
            THEN /\ Len(Side) = Len(PrevSide) - 1
                 /\ P \notin KeySet(Side)
                 /\ ItemSet(Side) = {it \in ItemSet(PrevSide) : it[1] # P}
                 /\ Side = SelectSeq(PrevSide, LAMBDA it : it[1] # P)
            ELSE Side = PrevSide

C3_Witness ==
    /\ pc = "returned"
    /\ Len(PrevSide) = 2
    /\ OnlyEntry(PrevSide[2][1], 0)
    /\ Side = <<PrevSide[1]>>

\* C4: a batch whose only non-zero-price entry is (P > 0, Q > 0) leaves
\* exactly one level at P, holding Q, and the other levels as they were;
\* applied to a side that already holds (P, Q), or applied a second time, it
\* changes nothing.
C4_IdempotentUpsert ==
    \A P \in PosPrices, Q \in PosQuantities :
        (pc = "returned" /\ OnlyEntry(P, Q)) =>
            /\ LevelsAt(Side, P) = 1
            /\ <<P, Q>> \in ItemSet(Side)
            /\ {it \in ItemSet(Side) : it[1] # P}
                  = {it \in ItemSet(PrevSide) : it[1] # P}
            /\ <<P, Q>> \in ItemSet(PrevSide) => Side = PrevSide
            /\ UpdateSide(Side, prices, quantities) = Side

C4_Witness ==
    /\ pc = "returned"
    /\ Len(PrevSide) = 2
    /\ \E P \in PosPrices, Q \in PosQuantities :
          /\ OnlyEntry(P, Q)
          /\ P \in KeySet(PrevSide)
          /\ <<P, Q>> \notin ItemSet(PrevSide)
          /\ <<P, Q>> \in ItemSet(Side)
          /\ Len(Side) = 2

\* C5: a call whose prices are all 0, whatever the quantities, leaves both
\* mappings as they were: same keys, same quantities, same order.
C5_AllZeroNoOp ==
    (pc = "returned" /\ EveryPriceZero) =>
        /\ bids = prevBids
        /\ offers = prevOffers

C5_Witness ==
    /\ pc = "returned"
    /\ EveryPriceZero
    /\ \E i \in 1..Len(quantities) : quantities[i] # NaN /\ quantities[i] > 0
    /\ Len(bids) = 2
    /\ Len(offers) = 2

\* C6: in a batch that is not all-zero an index whose price is 0 has no
\* effect: no level at price 0 exists afterwards, and the side is the one
\* the batch without that index produces.
C6_ZeroPriceSkipped ==
    (pc = "returned" /\ ~EveryPriceZero) =>
        \A i \in 1..Len(prices) :
            prices[i] = 0 =>
                /\ 0 \notin KeySet(Side)
                /\ Side = UpdateSide(PrevSide, Without(prices, i),
                                     Without(quantities, i))

C6_Witness ==
    /\ pc = "returned"
    /\ ~EveryPriceZero
    /\ \E i \in 1..Len(prices) :
          /\ prices[i] = 0
          /\ quantities[i] # NaN
          /\ quantities[i] > 0
    /\ Side # PrevSide
    /\ Len(PrevSide) > 0

\* C7: update_bids leaves the offer mapping as it was and update_offers
\* leaves the bid mapping as it was.
C7_SideIndependence ==
    /\ (pc = "returned" /\ op = "update_bids") => offers = prevOffers
    /\ (pc = "returned" /\ op = "update_offers") => bids = prevBids

C7_Witness ==
    /\ pc = "returned"
    /\ op = "update_offers"
    /\ offers # prevOffers
    /\ Len(bids) = 2
    /\ bids = prevBids

\* C8: get_spread is the lowest offer price minus the highest bid price when
\* both sides hold a level, and None when either side is empty.
C8_Spread ==
    IF Len(bids) = 0 \/ Len(offers) = 0
    THEN get_spread(bids, offers) = None
    ELSE LET hi == CHOOSE k \in KeySet(bids) : \A x \in KeySet(bids) : x <= k
             lo == CHOOSE k \in KeySet(offers) : \A x \in KeySet(offers) : x >= k
         IN  get_spread(bids, offers) = <<lo - hi>>

C8_Witness ==
    /\ pc = "returned"
    /\ Len(bids) = 2
    /\ Len(offers) = 2
    /\ get_spread(bids, offers) = <<-1>>

\* C9: every key of either mapping is a price > 0 and its stored quantity
\* is > 0, whatever zero, negative, NaN or duplicate prices and quantities
\* the batches held.
C9_PositiveLevels ==
    \A it \in ItemSet(bids) \cup ItemSet(offers) :
        /\ it[1] # NaN
        /\ it[1] > 0
        /\ it[2] # NaN
        /\ it[2] > 0

C9_Witness ==
    /\ pc = "returned"
    /\ Side # PrevSide
    /\ Len(Side) > 0
    /\ \E i \in 1..Len(prices) :
          /\ prices[i] # NaN
          /\ prices[i] > 0
          /\ quantities[i] \in {NaN, -1, 0}

\* C10: when one of the price or quantity fields of the record is missing
\* or non-numeric, update_order_book ends with an exception and bids, offers
\* and last_update_time are as they were before the call.
C10_NoPartialApply ==
    (/\ pc = "returned"
     /\ op = "update_order_book"
     /\ \E i \in 1..Len(FieldsInOrder(row)) :
           FieldsInOrder(row)[i].kind \in {"absent", "str"}) =>
        /\ raised \in {"KeyError", "ValueError"}
        /\ bids = prevBids
        /\ offers = prevOffers
        /\ last_update_time = prevTime

\* A record whose bid fields would change the bid side and whose offer
\* fields do not convert, on a book that has been updated before.
C10_Witness ==
    /\ pc = "returned"
    /\ op = "update_order_book"
    /\ \A i \in 1..FeedDepth :
          /\ row.bid_prices[i] = Num(1)
          /\ row.bid_quantities[i] = Num(0)
    /\ \E i \in 1..FeedDepth :
          row.offer_quantities[i].kind \in {"absent", "str"}
    /\ raised # "none"
    /\ Len(prevBids) > 0
    /\ prevTime # None
    /\ prevTime # <<to_pydatetime(row.time)>>
    /\ bids = prevBids

\* C11 as stated: every successful update_order_book call leaves
\* last_update_time equal to the record's time.
C11_TimeIsRecordTime ==
    (pc = "returned" /\ op = "update_order_book" /\ raised = "none") =>
        last_update_time = <<row.time>>

\* C11, amended: every successful update_order_book call leaves
\* last_update_time equal to the record's time as to_pydatetime converts it
\* (microseconds, the nanoseconds dropped), whatever the previous value and
\* also when both side updates were no-ops.
C11_TimeOverwritten ==
    (pc = "returned" /\ op = "update_order_book" /\ raised = "none") =>
        last_update_time = <<to_pydatetime(row.time)>>

\* A successful call with all-zero prices on both sides, on a book that
\* holds levels and an earlier time.
C11_Witness ==
    /\ pc = "returned"
    /\ op = "update_order_book"
    /\ raised = "none"
    /\ \A i \in 1..FeedDepth :
          /\ row.bid_prices[i] = Num(0)
          /\ row.offer_prices[i] = Num(0)
    /\ Len(bids) > 0
    /\ Len(offers) > 0
    /\ bids = prevBids
    /\ offers = prevOffers
    /\ prevTime # None
    /\ prevTime # last_update_time
    /\ last_update_time = <<to_pydatetime(row.time)>>

\* Index i of the batch is a degenerate row: a price > 0 with a quantity
\* < 0, or a price < 0.
Degenerate(i) ==
    /\ prices[i] # NaN
    /\ \/ prices[i] > 0 /\ quantities[i] # NaN /\ quantities[i] < 0
       \/ prices[i] < 0

\* The levels of side d at price P.
LevelsOf(d, P) == {it \in ItemSet(d) : it[1] = P}

\* C17: a degenerate index neither inserts, overwrites nor deletes: the side
\* is the one the batch without that index produces, a batch of degenerate
\* and zero-price indices leaves the side as it was, and a level at the
\* price of a degenerate index that the batch names nowhere else keeps its
\* quantity.
C17_DegenerateIgnored ==
    pc = "returned" =>
        /\ \A i \in 1..Len(prices) :
              Degenerate(i) =>
                  /\ Side = UpdateSide(PrevSide, Without(prices, i),
                                       Without(quantities, i))
                  /\ (\A j \in (1..Len(prices)) \ {i} : prices[j] # prices[i]) =>
                        LevelsOf(Side, prices[i]) = LevelsOf(PrevSide, prices[i])
        /\ (\A i \in 1..Len(prices) : Degenerate(i) \/ prices[i] = 0) =>
              Side = PrevSide

C17_Witness ==
    /\ pc = "returned"
    /\ Len(PrevSide) = 2
    /\ \E i \in 1..Len(prices) :
          /\ Degenerate(i)
          /\ prices[i] > 0
          /\ prices[i] \in KeySet(PrevSide)
          /\ \A j \in (1..Len(prices)) \ {i} : prices[j] # prices[i]
          /\ LevelsOf(Side, prices[i]) = LevelsOf(PrevSide, prices[i])
    /\ \E i \in 1..Len(prices) : prices[i] # NaN /\ prices[i] < 0

\* The indices of the batch that name price P with a quantity >= 0.
Deciding(P) ==
    {i \in 1..Len(prices) :
        prices[i] = P /\ quantities[i] # NaN /\ quantities[i] >= 0}

Max(S) == CHOOSE x \in S : \A y \in S : y <= x

\* C19: the state of a price P > 0 after a batch is decided by the last
\* index naming P with a quantity >= 0: one level holding that quantity if
\* it is > 0, no level if it is 0; with no such index P is as it was.
C19_LastIndexDecides ==
    pc = "returned" =>
        \A P \in PosPrices :
            IF Deciding(P) = {}
            THEN LevelsOf(Side, P) = LevelsOf(PrevSide, P)
            ELSE LET q == quantities[Max(Deciding(P))]
                 IN  IF q > 0
                     THEN /\ LevelsOf(Side, P) = {<<P, q>>}
                          /\ LevelsAt(Side, P) = 1
                     ELSE P \notin KeySet(Side)

\* (P, q > 0) followed by (P, 0) in one batch, on a side without P.
C19_Witness ==
    /\ pc = "returned"
    /\ \E i, j \in 1..Len(prices) :
          /\ i < j
          /\ prices[i] \in PosPrices
          /\ prices[j] = prices[i]
          /\ quantities[i] > 0
          /\ quantities[j] = 0
          /\ j = Max(Deciding(prices[i]))
          /\ prices[i] \notin KeySet(PrevSide)
          /\ prices[i] \notin KeySet(Side)
    /\ Len(PrevSide) > 0

\* C15: a query leaves bids, offers and last_update_time as they were, and
\* returns what the same query returned before when no update call has come
\* in between.
C15_PureReads ==
    (pc = "returned" /\ op \in Queries) =>
        /\ bids = prevBids
        /\ offers = prevOffers
        /\ last_update_time = prevTime
        /\ prevAsked[op] # <<>> => prevAsked[op] = <<result>>

\* get_spread called again, after all three queries, on a book with both
\* sides and a time.
C15_Witness ==
    /\ pc = "returned"
    /\ op = "get_spread"
    /\ \A q \in Queries : prevAsked[q] # <<>>
    /\ prevAsked[op] = <<result>>
    /\ result # None
    /\ Len(bids) > 0
    /\ last_update_time # None

\* The prices the batch names with a price > 0.
Named == {prices[i] : i \in {j \in 1..Len(prices) : prices[j] # NaN /\ prices[j] > 0}}

\* C18: a side update is a merge: every level whose price the batch does
\* not name is kept with its quantity, and a level that is new, changed or
\* gone is at a price the batch names with a price > 0; so a side can hold
\* more levels than one record carries.
C18_Incremental ==
    pc = "returned" =>
        /\ \A it \in ItemSet(PrevSide) : it[1] \notin Named => it \in ItemSet(Side)
        /\ \A it \in ItemSet(Side) \ ItemSet(PrevSide) : it[1] \in Named
        /\ \A it \in ItemSet(PrevSide) \ ItemSet(Side) : it[1] \in Named

\* A side holding more than five levels after a batch that added one.
C18_Witness ==
    /\ pc = "returned"
    /\ Len(Side) > TopLevels
    /\ Len(PrevSide) = TopLevels
    /\ ItemSet(PrevSide) \subseteq ItemSet(Side)

----------------------------------------------------------------------------
\* The registry over a run

\* The row the last turn of process_file's loop took.
LastRow == df[IF outcome = "applied" THEN rowIdx - 1 ELSE rowIdx]

\* A turn of process_file's loop has just ended.
RowTaken == outcome \in {"applied", "row_error"}

\* C12: a row of a security that is no key of the registry gets a new empty
\* OrderBook before it is applied; a row of a known security is applied to
\* the OrderBook the registry holds, which keeps what it has accumulated;
\* the other entries are untouched; and no key of an earlier registry (at
\* the last row, at the opening of the file) is ever missing later.
C12_CreateOnFirstSight ==
    /\ DOMAIN prevBooks \subseteq DOMAIN order_books
    /\ DOMAIN fileBooks \subseteq DOMAIN order_books
    /\ RowTaken =>
          LET s == LastRow.security
              before == IF s \in DOMAIN prevBooks THEN prevBooks[s]
                        ELSE OrderBook(s)
          IN  /\ DOMAIN order_books = DOMAIN prevBooks \cup {s}
              /\ \A t \in DOMAIN prevBooks \ {s} : order_books[t] = prevBooks[t]
              /\ order_books[s] =
                    IF outcome = "applied" THEN update_order_book(before, LastRow)
                    ELSE before

\* In the second file a row of a security known from the first file adds an
\* offer level to the bid level its OrderBook already has, next to an
\* OrderBook created in the second file.
C12_Witness ==
    /\ outcome = "applied"
    /\ fileIdx = 2
    /\ LastRow.security \in DOMAIN fileBooks
    /\ prevBooks[LastRow.security].bids # <<>>
    /\ prevBooks[LastRow.security].offers = <<>>
    /\ order_books[LastRow.security].bids = prevBooks[LastRow.security].bids
    /\ order_books[LastRow.security].offers # <<>>
    /\ DOMAIN order_books # DOMAIN fileBooks

\* C13: over a whole run, a row applied to a security's OrderBook never
\* carries an earlier time than the row applied to it before, so the
\* OrderBook's last_update_time never decreases.
C13_TimeNeverDecreases ==
    outcome = "applied" =>
        LET s == LastRow.security
        IN  (s \in DOMAIN prevBooks /\ prevBooks[s].last_update_time # None) =>
                /\ to_pydatetime(LastRow.time) >= prevBooks[s].last_update_time[1]
                /\ order_books[s].last_update_time[1]
                       >= prevBooks[s].last_update_time[1]

\* What the code does keep: within one file, the rows come in non-decreasing
\* time.
C13_SortedWithinFile ==
    \A i, j \in 1..Len(df) : i < j => df[i].time <= df[j].time

\* C14: once process_file has raised on a file (read_market_data raised, or
\* a row did), run still calls process_file on every file of csv_files and
\* then returns.
C14_SkipAndContinue ==
    (failed # {}) ~> (runpc = "done" /\ processed = 1..csv_files)

\* run has returned after the first file failed on a row and the second
\* file was processed to its end and left levels in the registry.
C14_Witness ==
    /\ runpc = "done"
    /\ csv_files = MaxFiles
    /\ failed = {1}
    /\ processed = 1..MaxFiles
    /\ outcome = "file_end"
    /\ fileBooks # EmptyRegistry
    /\ \E s \in DOMAIN order_books : order_books[s].bids # <<>>

\* The registry after the first n rows of d have been applied to books, one
\* after the other.
RECURSIVE ApplyRows(_, _, _)
ApplyRows(books, d, n) ==
    IF n = 0 THEN books
    ELSE LET created == CreateOnFirstSight(ApplyRows(books, d, n - 1),
                                           d[n].security)
         IN  [created EXCEPT ![d[n].security] = update_order_book(@, d[n])]

\* C16: when row k of df raises, process_file is left for good, and from
\* then on until the next file is opened the registry is the one the file
\* was opened with, with rows 1..k-1 applied and with an empty OrderBook
\* for row k's security if that was no key; nothing of rows k+1.. is in it.
C16_NoRollback ==
    outcome = "row_error" =>
        LET applied == ApplyRows(fileBooks, df, rowIdx - 1)
            s == df[rowIdx].security
        IN  /\ runpc \in {"files", "done"}
            /\ fileIdx \in failed
            /\ DOMAIN order_books = DOMAIN applied \cup {s}
            /\ \A t \in DOMAIN applied : order_books[t] = applied[t]
            /\ s \notin DOMAIN applied => order_books[s] = OrderBook(s)

\* run has returned after the second of three rows of the last file raised:
\* the first row's level is in the registry, the second row's security has
\* an empty OrderBook, and the third row, which would have filled it, was
\* never applied.
C16_Witness ==
    /\ outcome = "row_error"
    /\ runpc = "done"
    /\ rowIdx = 2
    /\ Len(df) = 3
    /\ order_books[df[1].security] # OrderBook(df[1].security)
    /\ df[1].security \notin DOMAIN fileBooks
    /\ df[2].security # df[1].security
    /\ df[3].security = df[2].security
    /\ ~RowRaises(df[3])
    /\ order_books[df[2].security] = OrderBook(df[2].security)

====
